---- MODULE Spec2Model ----
(***************************************************************************)
(* Model of the OctoPrint status plugin of Glances                         *)
(* (glances/plugins/glances_octoprint.py): Plugin.__init__ resolves the    *)
(* connection settings, Plugin.update polls the printer and job endpoints  *)
(* and stores one status record, Plugin.msg_curse renders the stored       *)
(* record as a sequence of display lines.                                  *)
(*                                                                         *)
(* Python values are represented as follows.                               *)
(*   str        a TLA+ string                                              *)
(*   None | v   the sequences <<>> and <<v>>                               *)
(*   number     an integer count of tenths (200.4 is 2004, 3661 is 36610), *)
(*              so that int() has something to truncate                    *)
(*   dict       a function from its keys; the temperature mapping, whose   *)
(*              iteration order msg_curse depends on, is the sequence of   *)
(*              its items [name, actual, target] in that order             *)
(***************************************************************************)
EXTENDS Integers, Sequences, FiniteSets, TLC

VARIABLES
    pc,          \* "new" before __init__ ran, "ready" after, "raised" if it raised
    conf,        \* what __init__ reads: the application config and the yaml file
    host,        \* self.host
    port,        \* self.port
    api_key,     \* self.api_key
    printer_url, \* self.printer_url
    job_url,     \* self.job_url
    headers,     \* self.headers
    stats,       \* self.stats
    disabled,    \* the host's flag behind self.is_disable()
    call         \* the most recent call of update or msg_curse and its outcome

vars == <<pc, conf, host, port, api_key, printer_url, job_url, headers, stats,
          disabled, call>>

----------------------------------------------------------------------------
(* Bounds of the model *)

\* the temperature mappings enumerated hold at most this many tools
MaxTools == 2

\* the durations enumerated reach this many whole days
MaxDays == 2

----------------------------------------------------------------------------
(* Python values *)

None == <<>>

Some(v) == <<v>>

EmptyDict == [k \in {} |-> None]

\* bool(x) of an optional string: None and "" are falsy
Truthy(x) == x # None /\ x[1] # ""

\* needle in hay, for strings
Contains(hay, needle) ==
    \E i \in 1..(Len(hay) - Len(needle) + 1) :
        SubSeq(hay, i, i + Len(needle) - 1) = needle

StartsWith(s, prefix) ==
    Len(s) >= Len(prefix) /\ SubSeq(s, 1, Len(prefix)) = prefix

RECURSIVE Spaces(_)
Spaces(n) == IF n <= 0 THEN "" ELSE " " \o Spaces(n - 1)

\* int(x): truncation toward zero of a number held in tenths
IntOf(x) == IF x >= 0 THEN x \div 10 ELSE -((-x) \div 10)

\* str(x) of an optional integer
StrOf(x) == IF x = None THEN "None" ELSE ToString(x[1])

----------------------------------------------------------------------------
(* Plugin.__init__ *)

DefaultHost == "http://0.0.0.0"

DefaultPort == 5000

\* f"{self.port}": the default is the int 5000, a configured port is a string
PortText(p) == IF p.int THEN ToString(p.value) ELSE p.value

\* conf.get_value(section, option, default)
GetValue(option, default) == IF option = None THEN default ELSE option[1]

\* lines 52-55: the octoprint section of the application config
FromSection(c) ==
    IF c.has_section
    THEN [host    |-> GetValue(c.host, DefaultHost),
          port    |-> [int |-> FALSE, value |-> GetValue(c.port, "5000")],
          api_key |-> c.api_key]
    ELSE [host    |-> DefaultHost,
          port    |-> [int |-> TRUE, value |-> DefaultPort],
          api_key |-> None]

\* lines 57-63: the key of ~/.octoprint/config.yaml; [raised, api_key]
FromFile(key, file) ==
    IF Truthy(key) \/ ~file.exists
    THEN [raised |-> "", api_key |-> key]
    ELSE IF ~file.parses
    THEN [raised |-> "YAMLError", api_key |-> key]
    ELSE IF file.data = None
    THEN [raised |-> "TypeError", api_key |-> key]
    ELSE IF "api" \notin DOMAIN file.data[1]
    THEN [raised |-> "KeyError", api_key |-> key]
    ELSE IF "key" \notin DOMAIN file.data[1]["api"]
    THEN [raised |-> "KeyError", api_key |-> key]
    ELSE [raised |-> "", api_key |-> file.data[1]["api"]["key"]]

\* lines 65-66
WithScheme(h) == IF ~Contains(h, "http") THEN "http://" \o h ELSE h

\* lines 67-68
Url(h, p, suffix) == h \o ":" \o PortText(p) \o suffix

\* the whole of __init__ on the environment c
Configure(c) ==
    LET s == FromSection(c)
        k == FromFile(s.api_key, c.file)
        h == WithScheme(s.host)
    IN  [raised      |-> k.raised,
         host        |-> IF k.raised = "" THEN h ELSE s.host,
         port        |-> s.port,
         api_key     |-> k.api_key,
         printer_url |-> IF k.raised = "" THEN Some(Url(h, s.port, "/api/printer")) ELSE None,
         job_url     |-> IF k.raised = "" THEN Some(Url(h, s.port, "/api/job")) ELSE None,
         headers     |-> IF k.raised = "" THEN Some([XApiKey |-> k.api_key]) ELSE None]

(* The environments enumerated *)

Hosts == {"0.0.0.0", "octopi.local", "httpbox.local", "http://octopi.local",
          "https://octopi.local"}

Ports == {"8080"}

SectionKeys == {None, Some(""), Some("sectionkey")}

NoFile == [exists |-> FALSE, parses |-> FALSE, data |-> None]

Malformed == [exists |-> TRUE, parses |-> FALSE, data |-> None]

Doc(d) == [exists |-> TRUE, parses |-> TRUE, data |-> d]

Files ==
    {NoFile, Malformed,
     Doc(None),
     Doc(Some(EmptyDict)),
     Doc(Some("api" :> EmptyDict)),
     Doc(Some("api" :> ("key" :> None))),
     Doc(Some("api" :> ("key" :> Some("filekey"))))}

NoSection(f) ==
    [has_section |-> FALSE, host |-> None, port |-> None, api_key |-> None, file |-> f]

Confs ==
    {NoSection(f) : f \in Files}
    \cup [has_section : {TRUE},
          host        : {None} \cup {Some(h) : h \in Hosts},
          port        : {None} \cup {Some(p) : p \in Ports},
          api_key     : SectionKeys,
          file        : Files]

Stored(r) ==
    /\ host' = r.host
    /\ port' = r.port
    /\ api_key' = r.api_key
    /\ printer_url' = r.printer_url
    /\ job_url' = r.job_url
    /\ headers' = r.headers

InitNew ==
    /\ pc = "new"
    /\ conf \in Confs
    /\ host = DefaultHost
    /\ port = [int |-> TRUE, value |-> DefaultPort]
    /\ api_key = None
    /\ printer_url = None
    /\ job_url = None
    /\ headers = None
    /\ stats = EmptyDict
    /\ disabled = FALSE
    /\ call = [op |-> "none"]

Plugin_init ==
    /\ pc = "new"
    /\ LET r == Configure(conf)
       IN  /\ pc' = IF r.raised = "" THEN "ready" ELSE "raised"
           /\ Stored(r)
    /\ UNCHANGED <<conf, stats, disabled, call>>

SpecInit == InitNew /\ [][Plugin_init]_vars

----------------------------------------------------------------------------
(* Claims about __init__, under SpecInit *)

\* the host value the configuration supplies to __init__
ConfiguredHost == IF conf.has_section THEN GetValue(conf.host, DefaultHost) ELSE DefaultHost

ConfiguredPort == IF conf.has_section THEN GetValue(conf.port, "5000") ELSE "5000"

\* a host carries a scheme when it has a "scheme://" part
LacksScheme(h) == ~Contains(h, "://")

\* the api_key option of the octoprint section, None without one
SectionKey == IF conf.has_section THEN conf.api_key ELSE None

FileHasKey ==
    /\ conf.file.exists /\ conf.file.parses /\ conf.file.data # None
    /\ "api" \in DOMAIN conf.file.data[1]
    /\ "key" \in DOMAIN conf.file.data[1]["api"]

FileWithoutKey == ~conf.file.exists \/ (conf.file.parses /\ ~FileHasKey)

\* C4: whenever the configured host lacks a scheme, __init__ ends with a host
\* that begins with "http://", and the printer and job URLs are that host
\* followed by ":<port>/api/printer" and ":<port>/api/job".
C4_SchemePrefixed ==
    (pc = "ready" /\ LacksScheme(ConfiguredHost)) =>
        /\ StartsWith(host, "http://")
        /\ printer_url = Some(host \o ":" \o ConfiguredPort \o "/api/printer")
        /\ job_url = Some(host \o ":" \o ConfiguredPort \o "/api/job")

\* C5: the API key is the section's value when that is non-empty; otherwise
\* api.key of the yaml file when the file holds it; and with no file, or a
\* well-formed file without api or api.key, __init__ completes without
\* raising and the API key stays empty.
C5_ApiKeyResolution ==
    pc # "new" =>
        /\ Truthy(SectionKey) => (pc = "ready" /\ api_key = SectionKey)
        /\ (~Truthy(SectionKey) /\ FileHasKey) =>
               (pc = "ready" /\ api_key = conf.file.data[1]["api"]["key"])
        /\ (~Truthy(SectionKey) /\ FileWithoutKey) =>
               (pc = "ready" /\ ~Truthy(api_key))

----------------------------------------------------------------------------
(* Plugin.update *)

\* GlancesPlugin.get_init_value(): a fresh copy of the plugin's initial value,
\* the empty dict (__init__ passes no stats_init_value to the base class)
get_init_value == EmptyDict

\* d with d[k] = v
Set(d, k, v) == (k :> v) @@ d

\* lines 82-83: the record of a transport fault whose str(e) is e
ConnectErrorBare(st, e) == Set(Set(st, "state", "Error"), "error", e)

ConnectError(st, e) ==
    Set(Set(st, "state", "Error"), "error", "Unable to connect: " \o e)

\* line 87
IsSuccess2xx(printer) == printer.status_code \in 200..299

IsSuccess(printer) == printer.status_code = 200

\* lines 88-89
HttpError(st, printer) ==
    Set(Set(st, "state", "Error"), "error", printer.text)

\* lines 91-97 step by step; [raised, stats] where stats is the local dict as
\* far as it got when a json() call or a subscript raised
ProjectSwapped(st, job, printer) ==
    IF job.json = None \/ printer.json = None
    THEN [raised |-> "JSONDecodeError", stats |-> st]
    ELSE
    LET j == job.json[1]
        p == printer.json[1]
    IN  IF \/ "job" \notin DOMAIN j
           \/ "estimatedPrintTime" \notin DOMAIN j["job"]
           \/ "progress" \notin DOMAIN j
           \/ "printTime" \notin DOMAIN j["progress"]
           \/ "printTimeLeft" \notin DOMAIN j["progress"]
           \/ "state" \notin DOMAIN j
           \/ "temperature" \notin DOMAIN p
        THEN [raised |-> "KeyError", stats |-> st]
        ELSE [raised |-> "",
              stats  |-> Set(Set(Set(Set(Set(st,
                  "estimatedPrintTime", j["job"]["estimatedPrintTime"]),
                  "progress_printTime", j["progress"]["printTimeLeft"]),
                  "progress_printTimeLeft", j["progress"]["printTime"]),
                  "state", j["state"]),
                  "temperature", p["temperature"])]

Project(st, job, printer) ==
    IF job.json = None \/ printer.json = None
    THEN [raised |-> "JSONDecodeError", stats |-> st]
    ELSE
    LET j  == job.json[1]
        p  == printer.json[1]
        s1 == Set(st, "estimatedPrintTime", j["job"]["estimatedPrintTime"])
        s2 == Set(s1, "progress_printTime", j["progress"]["printTime"])
        s3 == Set(s2, "progress_printTimeLeft", j["progress"]["printTimeLeft"])
        s4 == Set(s3, "state", j["state"])
        s5 == Set(s4, "temperature", p["temperature"])
    IN  IF "job" \notin DOMAIN j \/ "estimatedPrintTime" \notin DOMAIN j["job"]
        THEN [raised |-> "KeyError", stats |-> st]
        ELSE IF "progress" \notin DOMAIN j \/ "printTime" \notin DOMAIN j["progress"]
        THEN [raised |-> "KeyError", stats |-> s1]
        ELSE IF "printTimeLeft" \notin DOMAIN j["progress"]
        THEN [raised |-> "KeyError", stats |-> s2]
        ELSE IF "state" \notin DOMAIN j
        THEN [raised |-> "KeyError", stats |-> s3]
        ELSE IF "temperature" \notin DOMAIN p
        THEN [raised |-> "KeyError", stats |-> s4]
        ELSE [raised |-> "", stats |-> s5]

\* lines 84 and 99: self.stats after the body ended with the local dict out.stats
\* (an exception leaves update before the assignment)
AssignAlways(old, out) == out.stats

Assign(old, out) == IF out.raised = "" THEN out.stats ELSE old

\* lines 77-100: the body of update on the two requests' outcomes. The job
\* request is made only when the printer request returned; both are made
\* before the printer's status is looked at. The decorators of lines 71-72
\* belong to GlancesPlugin and are not modelled: the body is taken to run on
\* every call.
UpdateBody(printer, job) ==
    LET st == get_init_value
    IN  IF printer.fault
        THEN [raised |-> "", stats |-> ConnectError(st, printer.e)]
        ELSE IF job.fault
        THEN [raised |-> "", stats |-> ConnectError(st, job.e)]
        ELSE IF ~IsSuccess(printer)
        THEN [raised |-> "", stats |-> HttpError(st, printer)]
        ELSE Project(st, job, printer)

(* The outcomes of requests.get enumerated *)

Fault(e) == [fault |-> TRUE, e |-> e]

Response(code, text, json) ==
    [fault |-> FALSE, status_code |-> code, text |-> text, json |-> json]

\* str(e) of the exceptions raised
FaultTexts == {"", "Connection refused"}

\* (status_code, text) of the responses that are not 200
ErrorReplies ==
    {<<201, "">>, <<409, "Printer is not operational">>, <<500, "server down">>,
     <<500, "">>}

ToolName(i) == "tool" \o ToString(i - 1)

Temps == {None, Some(2004), Some(-15)}

\* the temperature mappings with tools tool0.. in order and values in vals
Temperatures(n, vals) ==
    [1..n -> [actual : vals, target : vals]]

Named(t) == [i \in DOMAIN t |-> [name |-> ToolName(i), actual |-> t[i].actual,
                                 target |-> t[i].target]]

PollTemperatures ==
    {<<>>}
    \cup {Named(t) : t \in Temperatures(1, {None, Some(2004)})}
    \cup {Named(t) : t \in Temperatures(MaxTools, {Some(2100)})}

PrinterPayloads ==
    {Some("temperature" :> t) : t \in PollTemperatures}
    \cup {Some("error" :> "no temperature"), None}

JobPayload(state, est, pt, ptl) ==
    ("job" :> ("estimatedPrintTime" :> est))
    @@ ("progress" :> (("printTime" :> pt) @@ ("printTimeLeft" :> ptl)))
    @@ ("state" :> state)

Without(d, k) == [x \in DOMAIN d \ {k} |-> d[x]]

GoodJobs ==
    {JobPayload("Operational", None, None, None),
     JobPayload("Printing", Some(72000), Some(36610), Some(1205)),
     JobPayload("Printing", None, Some(864000), Some(0)),
     JobPayload("Error", Some(72000), Some(36614), None)}

BadJobs ==
    LET g == JobPayload("Printing", Some(72000), Some(36610), Some(1205))
    IN  {Without(g, "job"), Without(g, "progress"), Without(g, "state"),
         ("job" :> EmptyDict) @@ g,
         ("progress" :> ("printTimeLeft" :> Some(1205))) @@ g,
         ("progress" :> ("printTime" :> Some(36610))) @@ g}

JobPayloads == {Some(j) : j \in GoodJobs \cup BadJobs} \cup {None}

PrinterOutcomes ==
    {Fault(e) : e \in FaultTexts}
    \cup {Response(r[1], r[2], None) : r \in ErrorReplies}
    \cup {Response(200, "{...}", p) : p \in PrinterPayloads}
    \cup {Response(201, "{...}", Some("temperature" :> <<>>))}

JobOutcomes ==
    {Fault(e) : e \in FaultTexts}
    \cup {Response(200, "{...}", j) : j \in JobPayloads}
    \cup {Response(409, "{...}", Some("error" :> "Printer is not operational")),
          Response(403, "Forbidden", None)}

\* the state a constructed plugin starts in: __init__ ran on one of these
LifecycleConfs ==
    {NoSection(NoFile),
     [has_section |-> TRUE, host |-> Some("octopi.local"), port |-> None,
      api_key |-> Some("sectionkey"), file |-> NoFile]}

Constructed(c) ==
    LET r == Configure(c)
    IN  /\ pc = "ready"
        /\ conf = c
        /\ host = r.host
        /\ port = r.port
        /\ api_key = r.api_key
        /\ printer_url = r.printer_url
        /\ job_url = r.job_url
        /\ headers = r.headers

Init ==
    /\ \E c \in LifecycleConfs : Constructed(c)
    /\ stats = get_init_value
    /\ disabled = FALSE
    /\ call = [op |-> "none"]

Settings == <<pc, conf, host, port, api_key, printer_url, job_url, headers>>

update ==
    /\ pc = "ready"
    /\ \E printer \in PrinterOutcomes, job \in JobOutcomes :
          LET out == UpdateBody(printer, job)
          IN  /\ stats' = Assign(stats, out)
              /\ call' = [op      |-> "update",
                          printer |-> printer,
                          job     |-> job,
                          before  |-> DOMAIN stats,
                          raised  |-> out.raised,
                          ret     |-> IF out.raised = "" THEN Some(out.stats) ELSE None]
    /\ UNCHANGED <<Settings, disabled>>

\* the host application enables or disables the plugin
SetDisabled ==
    /\ pc = "ready"
    /\ disabled' = ~disabled
    /\ UNCHANGED <<Settings, stats, call>>

----------------------------------------------------------------------------
(* Plugin.msg_curse *)

\* GlancesPlugin.curse_add_line(msg, decoration): one display cell
curse_add_line(msg, decoration) == [msg |-> msg, decoration |-> decoration]

\* GlancesPlugin.curse_new_line(): the line-break marker
curse_new_line == curse_add_line("\n", "DEFAULT")

\* '{:{width}}'.format(s, width=w) for w >= 0: s left-justified in w columns
LJust(s, w) == s \o Spaces(w - Len(s))

\* '{:>w}'.format(s): s right-justified in w columns
RJust(s, w) == Spaces(w - Len(s)) \o s

\* '%02d' % n
Pad2Bare(n) == ToString(n)

Pad2(n) == IF n < 10 THEN "0" \o ToString(n) ELSE ToString(n)

\* str(datetime.timedelta(seconds=sec))
TimedeltaStr(sec) ==
    LET days == sec \div 86400
        secs == sec % 86400
        mm0  == secs \div 60
        ss   == secs % 60
        hh   == mm0 \div 60
        mm   == mm0 % 60
        hms  == ToString(hh) \o ":" \o Pad2(mm) \o ":" \o Pad2(ss)
    IN  IF days # 0
        THEN ToString(days) \o " day"
             \o (IF days # 1 /\ days # -1 THEN "s" ELSE "") \o ", " \o hms
        ELSE hms

\* line 113
SkipsUnlessEmpty(st, dis) == DOMAIN st = {}

Skips(st, dis) == DOMAIN st = {} \/ dis

\* lines 117-119
TitleLines(st, w) ==
    <<curse_add_line(LJust("OCTOPRINT " \o st["state"], w - 11), "TITLE"),
      curse_new_line>>

\* lines 121-124
ErrorLinesThenBreak(st, w) ==
    <<curse_add_line(LJust(st["error"], w - 11), "DEFAULT"), curse_new_line>>

ErrorLines(st, w) == <<curse_add_line(LJust(st["error"], w - 11), "DEFAULT")>>

\* lines 126-132
HeaderLines(w) ==
    <<curse_add_line(LJust("Temperature", w - 11), "DEFAULT"),
      curse_add_line("actual target", "DEFAULT"),
      curse_new_line>>

\* lines 135-140: int() of a temperature when it is there
FloorOrNone(x) == IF x = None THEN None ELSE Some(x[1] \div 10)

IntOrNone(x) == IF x = None THEN None ELSE Some(IntOf(x[1]))

\* lines 133-145
RECURSIVE ToolLines(_, _)
ToolLines(temperature, w) ==
    IF temperature = <<>>
    THEN <<>>
    ELSE LET tool   == Head(temperature)
             actual == IntOrNone(tool.actual)
             target == IntOrNone(tool.target)
         IN  <<curse_add_line(LJust(tool.name, w - 10), "DEFAULT"),
               curse_add_line(RJust(StrOf(actual), 3) \o "°C  "
                              \o RJust(StrOf(target), 3) \o "°C", "DEFAULT"),
               curse_new_line>>
             \o ToolLines(Tail(temperature), w)

\* lines 150-155: the duration shown for a seconds value
DurationStr(x) == IF x = None THEN "None" ELSE TimedeltaStr(IntOf(x[1]))

\* lines 147-164
TimeLines(st, w) ==
    <<curse_add_line(LJust("Time passed:", w - 5), "DEFAULT"),
      curse_add_line(RJust(DurationStr(st["progress_printTime"]), 6), "DEFAULT"),
      curse_new_line,
      curse_add_line(LJust("Time left:", w - 5), "DEFAULT"),
      curse_add_line(RJust(DurationStr(st["progress_printTimeLeft"]), 6), "DEFAULT")>>

\* lines 107-165: [raised, ret]
MsgCurseBody(st, dis, max_width) ==
    IF Skips(st, dis)
    THEN [raised |-> "", ret |-> <<>>]
    ELSE IF max_width = None
    THEN [raised |-> "TypeError", ret |-> <<>>]
    ELSE IF "state" \notin DOMAIN st
    THEN [raised |-> "KeyError", ret |-> <<>>]
    ELSE IF max_width[1] - 11 < 0
    THEN [raised |-> "ValueError", ret |-> <<>>]
    ELSE
    LET w == max_width[1]
    IN  IF "error" \in DOMAIN st
        THEN [raised |-> "", ret |-> TitleLines(st, w) \o ErrorLines(st, w)]
        ELSE IF {"temperature", "progress_printTime", "progress_printTimeLeft"}
                    \ DOMAIN st # {}
        THEN [raised |-> "KeyError", ret |-> <<>>]
        ELSE [raised |-> "",
              ret    |-> TitleLines(st, w) \o HeaderLines(w)
                         \o ToolLines(st["temperature"], w) \o TimeLines(st, w)]

Widths == {None, Some(5), Some(10), Some(11), Some(12), Some(40)}

msg_curse ==
    /\ pc = "ready"
    /\ \E max_width \in Widths :
          LET out == MsgCurseBody(stats, disabled, max_width)
          IN  call' = [op        |-> "msg_curse",
                       record    |-> stats,
                       disabled  |-> disabled,
                       max_width |-> max_width,
                       raised    |-> out.raised,
                       ret       |-> out.ret]
    /\ UNCHANGED <<Settings, stats, disabled>>

Next == update \/ msg_curse \/ SetDisabled

Spec == Init /\ [][Next]_vars

----------------------------------------------------------------------------
(* msg_curse as a function of the record: SpecRender starts from any record  *)
(* the plugin can be handed (GlancesPlugin.set_stats stores what a client    *)
(* received), any setting of the flag, and applies msg_curse.                *)

Healthy(state, est, pt, ptl, temperature) ==
    ("state" :> state) @@ ("estimatedPrintTime" :> est)
    @@ ("progress_printTime" :> pt) @@ ("progress_printTimeLeft" :> ptl)
    @@ ("temperature" :> temperature)

ErrorRecord(e) == ("state" :> "Error") @@ ("error" :> e)

\* whole seconds around the minute, hour and day marks
Seconds ==
    {d * 86400 + h * 3600 + m * 60 + x :
        d \in 0..MaxDays, h \in {0, 1, 23}, m \in {0, 1, 59}, x \in {0, 1, 59}}

Durations == {Some(10 * x) : x \in Seconds} \cup {Some(36614), Some(-10), None}

ToolRecords ==
    {Healthy("Printing", Some(72000), Some(36610), None, Named(t)) :
        t \in UNION {Temperatures(n, Temps) : n \in 0..MaxTools}}

TimeRecords ==
    {Healthy("Printing", None, x, y, <<>>) : x \in Durations, y \in {None, Some(0)}}
    \cup {Healthy("Operational", None, x, y, <<>>) :
             x \in {None, Some(864000)}, y \in Durations}

ErrorRecords == {ErrorRecord(e) : e \in {"", "server down", "Unable to connect: "}}

MixedRecords ==
    {("error" :> "server down") @@ h :
        h \in {Healthy("Printing", None, Some(36610), Some(0), <<>>),
               Healthy("Error", None, None, None,
                       Named([i \in 1..1 |-> [actual |-> Some(2004),
                                              target |-> Some(2100)]]))}}

RenderRecords ==
    {EmptyDict} \cup ToolRecords \cup TimeRecords \cup ErrorRecords \cup MixedRecords

InitRender ==
    /\ Constructed(NoSection(NoFile))
    /\ stats \in RenderRecords
    /\ disabled \in BOOLEAN
    /\ call = [op |-> "none"]

SpecRender == InitRender /\ [][msg_curse]_vars

----------------------------------------------------------------------------
(* Claims about update, under Spec *)

Polled == call.op = "update"

NoFault == ~call.printer.fault /\ ~call.job.fault

HealthyKeys ==
    {"state", "estimatedPrintTime", "progress_printTime", "progress_printTimeLeft",
     "temperature"}

ErrorKeys == {"state", "error"}

\* C1: a poll in which the printer request or the job request raises a
\* transport fault stores and returns a record with state "Error" and a
\* non-empty error string, and with no temperature, estimatedPrintTime or
\* progress field, whatever was stored before.
C1_FaultGivesErrorRecord ==
    (Polled /\ (call.printer.fault \/ call.job.fault)) =>
        /\ call.raised = ""
        /\ call.ret = Some(stats)
        /\ ErrorKeys \subseteq DOMAIN stats
        /\ stats["state"] = "Error"
        /\ stats["error"] # ""
        /\ DOMAIN stats \cap (HealthyKeys \ {"state"}) = {}

\* the job request faults after a healthy poll
C1_Witness ==
    /\ Polled /\ ~call.printer.fault /\ call.job.fault
    /\ "temperature" \in call.before
    /\ stats["state"] = "Error"

\* C2: when both requests complete and the printer endpoint's status is not
\* 200, poll returns a record with state "Error" and error equal to the
\* printer response's body text, and with no other field.
C2_Non200GivesBody ==
    (Polled /\ NoFault /\ call.printer.status_code # 200) =>
        /\ call.raised = ""
        /\ call.ret = Some(stats)
        /\ DOMAIN stats = ErrorKeys
        /\ stats["state"] = "Error"
        /\ stats["error"] = call.printer.text

\* a 201 reply that carries a temperature payload, after a healthy poll
C2_Witness ==
    /\ Polled /\ NoFault /\ call.printer.status_code = 201
    /\ call.printer.json # None
    /\ "temperature" \in call.before
    /\ stats["error"] = call.printer.text

WellFormedJob(j) ==
    /\ j # None
    /\ {"job", "progress", "state"} \subseteq DOMAIN j[1]
    /\ "estimatedPrintTime" \in DOMAIN j[1]["job"]
    /\ {"printTime", "printTimeLeft"} \subseteq DOMAIN j[1]["progress"]

WellFormedPrinter(p) == p # None /\ "temperature" \in DOMAIN p[1]

\* C3: when the printer endpoint returns 200 and both payloads are
\* well-formed, poll returns a record without error whose state,
\* estimatedPrintTime and progress fields are those of the job payload and
\* whose temperature is the printer payload's temperature mapping.
C3_HealthyProjection ==
    (/\ Polled /\ NoFault /\ call.printer.status_code = 200
     /\ WellFormedJob(call.job.json) /\ WellFormedPrinter(call.printer.json)) =>
        /\ call.raised = ""
        /\ call.ret = Some(stats)
        /\ DOMAIN stats = HealthyKeys
        /\ stats["state"] = call.job.json[1]["state"]
        /\ stats["estimatedPrintTime"] = call.job.json[1]["job"]["estimatedPrintTime"]
        /\ stats["progress_printTime"] = call.job.json[1]["progress"]["printTime"]
        /\ stats["progress_printTimeLeft"] = call.job.json[1]["progress"]["printTimeLeft"]
        /\ stats["temperature"] = call.printer.json[1]["temperature"]

\* a healthy poll with a tool and distinct progress values, after a failed one
C3_Witness ==
    /\ Polled /\ NoFault /\ call.printer.status_code = 200
    /\ WellFormedJob(call.job.json) /\ WellFormedPrinter(call.printer.json)
    /\ "error" \in call.before
    /\ stats["temperature"] # <<>>
    /\ stats["progress_printTime"] = Some(36610)
    /\ stats["progress_printTimeLeft"] = Some(1205)

Complete(st) == DOMAIN st \in {{}, ErrorKeys, HealthyKeys}

\* C10: the stored record is always empty, a complete error record or a
\* complete healthy record; msg_curse never reads a record that is anything
\* else; and a poll that aborts leaves the stored record as it was.
C10_RecordReplacedWhole ==
    /\ [](Complete(stats) /\ (call.op = "msg_curse" => Complete(call.record)))
    /\ [][(call'.op = "update" /\ call'.raised # "") => stats' = stats]_vars

\* a poll aborted on a missing key while a healthy record was stored
C10_Witness ==
    /\ Polled /\ call.raised = "KeyError"
    /\ DOMAIN stats = HealthyKeys

----------------------------------------------------------------------------
(* Claims about msg_curse, under SpecRender *)

Rendered == call.op = "msg_curse"

\* the plugin is enabled and max_width is an integer that leaves room for the
\* first margin
Shown == Rendered /\ ~call.disabled /\ call.max_width # None /\ call.max_width[1] >= 11

IsBreak(cell) == cell.msg = "\n"

\* line is text followed by spaces only
IsPadded(line, text) ==
    /\ StartsWith(line, text)
    /\ SubSeq(line, Len(text) + 1, Len(line)) = Spaces(Len(line) - Len(text))

RECURSIVE LStrip(_)
LStrip(line) ==
    IF Len(line) > 0 /\ SubSeq(line, 1, 1) = " "
    THEN LStrip(SubSeq(line, 2, Len(line)))
    ELSE line

\* the rows of cells between the line-break markers
RECURSIVE Rows(_)
Rows(cells) ==
    IF cells = <<>>
    THEN << <<>> >>
    ELSE LET rest == Rows(Tail(cells))
         IN  IF IsBreak(Head(cells))
             THEN << <<>> >> \o rest
             ELSE << <<Head(cells)>> \o rest[1] >> \o Tail(rest)

\* C6: msg_curse on a record that carries an error emits exactly two text
\* lines, the title "OCTOPRINT " + state and then the error text, with one
\* line break between them, and nothing else, whatever else the record holds.
C6_ErrorRecordTwoLines ==
    (Shown /\ "error" \in DOMAIN call.record) =>
        /\ call.raised = ""
        /\ Len(call.ret) = 3
        /\ call.ret[1].decoration = "TITLE"
        /\ IsPadded(call.ret[1].msg, "OCTOPRINT " \o call.record["state"])
        /\ IsBreak(call.ret[2])
        /\ ~IsBreak(call.ret[3])
        /\ IsPadded(call.ret[3].msg, call.record["error"])

\* an error record that also holds a temperature mapping with a tool
C6_Witness ==
    /\ Shown /\ "error" \in DOMAIN call.record
    /\ "temperature" \in DOMAIN call.record
    /\ call.record["temperature"] # <<>>
    /\ Len(call.ret) = 3

\* the text msg_curse shows for a temperature
Degrees(x) == IF x = None THEN "None" ELSE ToString(IntOf(x[1]))

\* C7: msg_curse on a healthy record with N tools emits a title row, a header
\* row "Temperature" / "actual target", one row per tool in the mapping's
\* order (its name, then actual and target truncated to integers with "°C",
\* "None" for an absent value), a "Time passed:" row and a "Time left:" row,
\* the rows separated by line breaks.
C7_HealthyLayout ==
    (Shown /\ DOMAIN call.record = HealthyKeys) =>
        LET rows  == Rows(call.ret)
            tools == call.record["temperature"]
            n     == Len(tools)
        IN  /\ call.raised = ""
            /\ Len(rows) = n + 4
            /\ Len(rows[1]) = 1
            /\ rows[1][1].decoration = "TITLE"
            /\ IsPadded(rows[1][1].msg, "OCTOPRINT " \o call.record["state"])
            /\ Len(rows[2]) = 2
            /\ IsPadded(rows[2][1].msg, "Temperature")
            /\ rows[2][2].msg = "actual target"
            /\ \A i \in 1..n :
                  /\ Len(rows[2 + i]) = 2
                  /\ IsPadded(rows[2 + i][1].msg, tools[i].name)
                  /\ \E a, b \in {0, 1, 2, 3} :
                        rows[2 + i][2].msg =
                            Spaces(a) \o Degrees(tools[i].actual) \o "°C  "
                            \o Spaces(b) \o Degrees(tools[i].target) \o "°C"
            /\ Len(rows[n + 3]) = 2
            /\ IsPadded(rows[n + 3][1].msg, "Time passed:")
            /\ Len(rows[n + 4]) = 2
            /\ IsPadded(rows[n + 4][1].msg, "Time left:")

\* a record with MaxTools tools, one value negative with a fraction, one absent
C7_Witness ==
    /\ Shown /\ DOMAIN call.record = HealthyKeys
    /\ Len(call.record["temperature"]) = MaxTools
    /\ call.record["temperature"][1].actual = Some(-15)
    /\ call.record["temperature"][1].target = None
    /\ call.raised = ""

\* no tools: title, header and the two duration rows
C7_NoToolsWitness ==
    /\ Shown /\ DOMAIN call.record = HealthyKeys
    /\ call.record["temperature"] = <<>>
    /\ Len(Rows(call.ret)) = 4

TwoDigits(n) == ToString(n \div 10) \o ToString(n % 10)

\* H:MM:SS with H = s div 3600, MM = (s mod 3600) div 60, SS = s mod 60
HMS(s) ==
    ToString(s \div 3600) \o ":" \o TwoDigits((s % 3600) \div 60)
    \o ":" \o TwoDigits(s % 60)

\* the duration cells of a healthy rendering
PassedCell == Rows(call.ret)[Len(call.record["temperature"]) + 3][2].msg

LeftCell == Rows(call.ret)[Len(call.record["temperature"]) + 4][2].msg

HMSShown(value, cell) ==
    /\ value = None => LStrip(cell) = "None"
    /\ (value # None /\ value[1] >= 0) => LStrip(cell) = HMS(IntOf(value[1]))

\* C8 as stated: every non-negative seconds value s, those of 86400 and more
\* included, is shown as H:MM:SS with H = s div 3600, and an absent value as
\* "None".
C8_DurationAnyLength ==
    (Shown /\ DOMAIN call.record = HealthyKeys) =>
        /\ HMSShown(call.record["progress_printTime"], PassedCell)
        /\ HMSShown(call.record["progress_printTimeLeft"], LeftCell)

DayHMSShown(value, cell) ==
    /\ value = None => LStrip(cell) = "None"
    /\ (value # None /\ value[1] >= 0) =>
          LET s == IntOf(value[1])
              d == s \div 86400
          IN  LStrip(cell) =
                  IF d = 0 THEN HMS(s)
                  ELSE ToString(d) \o (IF d = 1 THEN " day, " ELSE " days, ")
                       \o HMS(s % 86400)

\* C8 as amended: a non-negative seconds value s below 86400 is shown as
\* H:MM:SS with H = s div 3600, MM = (s mod 3600) div 60, SS = s mod 60; a value
\* of 86400 or more is shown as "D day, " (D = 1) or "D days, " (D > 1) with
\* D = s div 86400, followed by H:MM:SS of s mod 86400; an absent value is
\* shown as "None". A value with a fraction is truncated to whole seconds first.
C8_DurationWithDays ==
    (Shown /\ DOMAIN call.record = HealthyKeys) =>
        /\ DayHMSShown(call.record["progress_printTime"], PassedCell)
        /\ DayHMSShown(call.record["progress_printTimeLeft"], LeftCell)

\* 3661 seconds passed is shown as 1:01:01, and the time left is over a day
C8_Witness ==
    /\ Shown /\ DOMAIN call.record = HealthyKeys
    /\ \/ /\ call.record["progress_printTime"] = Some(36610)
          /\ PassedCell = "1:01:01"
       \/ /\ call.record["progress_printTimeLeft"] = Some(10 * (86400 + 3661))
          /\ LeftCell = "1 day, 1:01:01"

\* C9: msg_curse returns the empty sequence without raising whenever the
\* stored record is empty or the plugin is disabled, for every max_width,
\* an absent one and those below 11 included.
C9_EmptyWhenNothingToShow ==
    (Rendered /\ (DOMAIN call.record = {} \/ call.disabled)) =>
        (call.raised = "" /\ call.ret = <<>>)

\* disabled with a healthy record stored and no max_width given
C9_Witness ==
    /\ Rendered /\ call.disabled
    /\ DOMAIN call.record = HealthyKeys
    /\ call.max_width = None
    /\ call.ret = <<>>

\* an empty record and a max_width below 11
C9_EmptyWitness ==
    /\ Rendered /\ ~call.disabled
    /\ DOMAIN call.record = {}
    /\ call.max_width = Some(5)
    /\ call.ret = <<>>

====
